---- MODULE Spec2Model ----
(***************************************************************************)
(* Model of app/main.py: a FastAPI service that guards read/delete access  *)
(* to the records of data.json with bearer tokens issued against the       *)
(* accounts of users.json.                                                 *)
(*                                                                         *)
(* Both files are shared by every server process (worker) that runs the    *)
(* application.  A handler is an `async def` without any await, so one     *)
(* worker runs a request from start to end before it takes the next one;   *)
(* requests served by different workers interleave at the granularity of   *)
(* one file read or one file write.  SECRET_KEY is taken to be set.         *)
(***************************************************************************)
EXTENDS Integers, Sequences, FiniteSets, TLC

(***************************************************************************)
(* Bounds of the model.                                                    *)
(***************************************************************************)
\* record ids held by the initial data.json are drawn from 1..MaxId
MaxId == 2
\* the clock runs from 0 to MaxTime (minutes) in steps of TickStep
MaxTime == 60
TickStep == 30

Workers == {"w1", "w2"}
Usernames == {"Me", "bob"}
\* the (password, full_name, email) triples a registration may carry
Profiles ==
  { [password |-> "password", full_name |-> "Mr Me", email |-> "me@email.com"],
    [password |-> "hunter2", full_name |-> "B. Ob", email |-> "bob@email.com"] }
Passwords == {p.password : p \in Profiles}

RecordIds == 1..MaxId
\* ids a request may name: every record id and one id no record holds
ItemIds == 1..(MaxId + 1)
Times == {t \in 0..MaxTime : t % TickStep = 0}

(***************************************************************************)
(* Program constants.                                                      *)
(***************************************************************************)
SECRET_KEY == "SECRET_KEY"
ALGORITHM == "HS256"
TOKEN_EXP == 30

NoneV == [none |-> TRUE]
NoSub == "<no sub>"
EmptyDict == [k \in {} |-> k]

(***************************************************************************)
(* Values.                                                                 *)
(***************************************************************************)
\* the listing stored under an id (its payload is opaque to the service)
PriceOf(id) == IF id = 1 THEN "$922,500" ELSE "$1"
Item(id) == [id |-> id, price |-> PriceOf(id)]

\* sequences of records with pairwise distinct ids
RECURSIVE DistinctSeqs(_)
DistinctSeqs(ids) ==
  {<<>>} \cup UNION { { <<Item(i)>> \o s : s \in DistinctSeqs(ids \ {i}) } : i \in ids }

\* pwd_context.hash / pwd_context.verify (bcrypt; the salt is left out)
pwd_context_hash(plain) == <<"$2b$", plain>>
\* faulty variant: every password verifies
MutVerifyAlways(plain_password, hashed_password) == TRUE
verify_password(plain_password, hashed_password) ==
  hashed_password = pwd_context_hash(plain_password)

\* bearer tokens a client may present: signed with the service's key or with
\* another one, with or without a subject, or not a JWT at all
ExpTimes == {t + TOKEN_EXP : t \in Times}
Malformed == [malformed |-> TRUE]
Tokens ==
  [sub : Usernames \cup {NoSub}, exp : ExpTimes, key : {SECRET_KEY, "other key"}]
    \cup {Malformed}

\* jwt.encode(to_encode, SECRET_KEY, algorithm=ALGORITHM)
jwt_encode(to_encode, key) ==
  [sub |-> to_encode.sub, exp |-> to_encode.exp, key |-> key]

\* jwt.decode(token, SECRET_KEY, algorithms=[ALGORITHM]): the payload, or
\* PyJWTError for a token that is malformed, wrongly signed or expired.  A
\* token whose exp equals the current time is expired for some releases of the
\* library and valid for others (lenient).
PyJWTError == [error |-> "PyJWTError"]
\* faulty variants: exp is not checked; the signature is not checked
MutDecodeNoExpiry(token, key, time, lenient) ==
  IF token = Malformed THEN PyJWTError
  ELSE IF token.key # key THEN PyJWTError
  ELSE [sub |-> token.sub, exp |-> token.exp]
MutDecodeNoSignature(token, key, time, lenient) ==
  IF token = Malformed THEN PyJWTError
  ELSE IF token.exp < time \/ (token.exp = time /\ ~lenient) THEN PyJWTError
  ELSE [sub |-> token.sub, exp |-> token.exp]
jwt_decode(token, key, time, lenient) ==
  IF token = Malformed THEN PyJWTError
  ELSE IF token.key # key THEN PyJWTError
  ELSE IF token.exp < time \/ (token.exp = time /\ ~lenient) THEN PyJWTError
  ELSE [sub |-> token.sub, exp |-> token.exp]

\* create_access_token(data, expires_delta)
\* faulty variant: the arguments of jwt.encode swapped
MutTokenWrongKey(sub, expires_delta, time) ==
  jwt_encode([sub |-> sub, exp |-> time + expires_delta], ALGORITHM)
create_access_token(sub, expires_delta, time) ==
  jwt_encode([sub |-> sub, exp |-> time + expires_delta], SECRET_KEY)

(***************************************************************************)
(* The two JSON files.  A file holds text: a users file holds nothing or   *)
(* an object (a set of key/value pairs), the data file holds an array of   *)
(* objects (each a tuple of keys and values).                              *)
(***************************************************************************)
json_dump_users(dict) ==
  [empty |-> FALSE, pairs |-> {<<k, dict[k]>> : k \in DOMAIN dict}]
json_loads_users(content) ==
  [k \in {p[1] : p \in content.pairs} |->
     (CHOOSE p \in content.pairs : p[1] = k)[2]]
json_dump_data(data) ==
  [i \in 1..Len(data) |-> <<"id", data[i].id, "price", data[i].price>>]
json_load_data(content) ==
  [i \in 1..Len(content) |-> [id |-> content[i][2], price |-> content[i][4]]]

VARIABLES
  users_file,      \* content of users.json
  data_file,       \* content of data.json
  now,             \* datetime.now(timezone.utc), in minutes
  pc,              \* per worker: the step its current request is at
  req,             \* per worker: the data request in progress
  username,        \* per worker: get_current_user's username
  current_user,    \* per worker: the user get_current_user resolved
  data,            \* per worker: delete_item's loaded list
  index,           \* per worker: delete_item's index of the match
  user_data,       \* per worker: create_new_user's user_data
  users,           \* per worker: create_user's loaded users
  resp,            \* per worker: the last response it sent
  stale,           \* per worker: data.json was written since it was loaded
  last_deleted,    \* id removed by the latest write of data.json (0: none)
  double_success,  \* two requests have reported the same record deleted
  lost_update      \* a write has brought a deleted record back

vars == <<users_file, data_file, now, pc, req, username, current_user, data,
          index, user_data, users, resp, stale, last_deleted, double_success,
          lost_update>>

file_vars == <<users_file, data_file>>
hist_vars == <<stale, last_deleted, double_success, lost_update>>
delete_locals == <<data, index>>
create_locals == <<user_data, users>>
auth_locals == <<req, username, current_user>>

\* load_users(): {} for an empty file
load_users ==
  IF users_file.empty THEN EmptyDict ELSE json_loads_users(users_file)

\* get_user(username)
\* faulty variant: the lookup finds nobody
MutGetUserNone(name) == NoneV
get_user(name) ==
  LET dict == load_users IN
  IF name \in DOMAIN dict THEN dict[name] ELSE NoneV

\* load_data()
\* faulty variant: the list read once at start-up instead of from the file
MutLoadDataCached == [i \in 1..MaxId |-> Item(i)]
load_data == json_load_data(data_file)

\* authenticate_user(username, password)
authenticate_user(name, password) ==
  LET user == get_user(name) IN
  IF user = NoneV \/ ~verify_password(password, user.hashed_password)
  THEN NoneV ELSE user

(***************************************************************************)
(* Responses.                                                              *)
(***************************************************************************)
Bearer == [WWW_Authenticate |-> "Bearer"]
IncorrectLogin ==
  [status |-> 400, detail |-> "Incorrect username or password", headers |-> Bearer]
UsernameExists == [status |-> 400, detail |-> "Username already exists"]
credentials_exception ==
  [status |-> 401, detail |-> "Could not validate credentials", headers |-> Bearer]
ItemNotFound == [status |-> 404, detail |-> "Item not found"]
NoResp == [op |-> "none", out |-> [status |-> 0]]
NoReq == [op |-> "none"]

Ids(list) == {list[i].id : i \in 1..Len(list)}

\* the first index whose item has the id, 0 when none has it
\* faulty variants: the position compared instead of the id; the loop
\* variable used after a scan without a match
MutFirstMatchByPosition(list, item_id) ==
  LET hits == {i \in 1..Len(list) : i = item_id} IN
  IF hits = {} THEN 0 ELSE CHOOSE i \in hits : \A j \in hits : i <= j
MutFirstMatchElseLast(list, item_id) ==
  LET hits == {i \in 1..Len(list) : list[i].id = item_id} IN
  IF hits = {} THEN Len(list) ELSE CHOOSE i \in hits : \A j \in hits : i <= j
FirstMatch(list, item_id) ==
  LET hits == {i \in 1..Len(list) : list[i].id = item_id} IN
  IF hits = {} THEN 0 ELSE CHOOSE i \in hits : \A j \in hits : i <= j

\* data.pop(index): the list without its index-th item
\* faulty variant: data.pop() without the index
MutPopLast(list, i) == [j \in 1..(Len(list) - 1) |-> list[j]]
Pop(list, i) == [j \in 1..(Len(list) - 1) |-> IF j < i THEN list[j] ELSE list[j + 1]]

(***************************************************************************)
(* Initial state: users.json as initialize_users_file leaves it or as an   *)
(* earlier run left it (one account, enabled or disabled); data.json with  *)
(* any records of pairwise distinct ids; every worker idle.                *)
(***************************************************************************)
StoredUser(name, profile, disabled) ==
  [username |-> name, full_name |-> profile.full_name, email |-> profile.email,
   hashed_password |-> pwd_context_hash(profile.password), disabled |-> disabled]
MeProfile == CHOOSE p \in Profiles : p.password = "password"
InitUsersFiles ==
  { [empty |-> TRUE, pairs |-> {}],
    json_dump_users(EmptyDict),
    json_dump_users([k \in {"Me"} |-> StoredUser("Me", MeProfile, FALSE)]),
    json_dump_users([k \in {"Me"} |-> StoredUser("Me", MeProfile, TRUE)]) }

InitWorkers ==
  /\ now = 0
  /\ pc = [w \in Workers |-> "idle"]
  /\ req = [w \in Workers |-> NoReq]
  /\ username = [w \in Workers |-> NoSub]
  /\ current_user = [w \in Workers |-> NoneV]
  /\ data = [w \in Workers |-> <<>>]
  /\ index = [w \in Workers |-> 0]
  /\ user_data = [w \in Workers |-> NoneV]
  /\ users = [w \in Workers |-> EmptyDict]
  /\ resp = [w \in Workers |-> NoResp]
  /\ stale = [w \in Workers |-> FALSE]
  /\ last_deleted = 0
  /\ double_success = FALSE
  /\ lost_update = FALSE

Init ==
  /\ users_file \in InitUsersFiles
  /\ data_file \in {json_dump_data(s) : s \in DistinctSeqs(RecordIds)}
  /\ InitWorkers

\* the request of worker w ends with the response r
Respond(w, r) ==
  /\ pc' = [pc EXCEPT ![w] = "idle"]
  /\ resp' = [resp EXCEPT ![w] = r]
  /\ req' = [req EXCEPT ![w] = NoReq]
  /\ username' = [username EXCEPT ![w] = NoSub]
  /\ current_user' = [current_user EXCEPT ![w] = NoneV]

(***************************************************************************)
(* POST /token                                                             *)
(***************************************************************************)
login(w, form_username, form_password) ==
  /\ pc[w] = "idle"
  /\ LET user == authenticate_user(form_username, form_password) IN
     Respond(w, [op |-> "login", username |-> form_username,
                 password |-> form_password,
                 out |-> IF user = NoneV THEN IncorrectLogin
                         ELSE [status |-> 200,
                               access_token |->
                                 create_access_token(user.username, TOKEN_EXP, now),
                               token_type |-> "bearer"]])
  /\ UNCHANGED <<file_vars, now, delete_locals, create_locals, hist_vars>>

(***************************************************************************)
(* POST /create_user                                                       *)
(***************************************************************************)
\* lines 127-137: refuse a taken username, else build user_data
create_new_user(w, name, password, full_name, email) ==
  /\ pc[w] = "idle"
  /\ IF get_user(name) # NoneV
     THEN /\ Respond(w, [op |-> "create_user", username |-> name,
                         out |-> UsernameExists])
          /\ UNCHANGED user_data
     ELSE /\ pc' = [pc EXCEPT ![w] = "load_users"]
          /\ user_data' = [user_data EXCEPT ![w] =
               [username |-> name, full_name |-> full_name, email |-> email,
                hashed_password |-> pwd_context_hash(password),
                disabled |-> FALSE]]
          /\ resp' = [resp EXCEPT ![w] = NoResp]
          /\ UNCHANGED auth_locals
  /\ UNCHANGED <<file_vars, now, delete_locals, users, hist_vars>>

\* create_user, lines 111-112: load the users and set the entry
create_user_load(w) ==
  /\ pc[w] = "load_users"
  /\ LET loaded == load_users IN
     users' = [users EXCEPT ![w] =
       [k \in DOMAIN loaded \cup {user_data[w].username} |->
          IF k = user_data[w].username THEN user_data[w] ELSE loaded[k]]]
  /\ pc' = [pc EXCEPT ![w] = "save_users"]
  /\ UNCHANGED <<file_vars, now, auth_locals, delete_locals, user_data, resp,
                 hist_vars>>

\* create_user, line 113, and create_new_user's answer: write the users back
create_user_save(w) ==
  /\ pc[w] = "save_users"
  /\ users_file' = json_dump_users(users[w])
  /\ Respond(w, [op |-> "create_user", username |-> user_data[w].username,
                 out |-> [status |-> 200, message |-> "User created successfully"]])
  /\ user_data' = [user_data EXCEPT ![w] = NoneV]
  /\ users' = [users EXCEPT ![w] = EmptyDict]
  /\ UNCHANGED <<data_file, now, delete_locals, hist_vars>>

(***************************************************************************)
(* get_current_user, the dependency of the three /data routes              *)
(***************************************************************************)
HandlerOf(op) ==
  CASE op = "GET /data" -> "get_data"
    [] op = "GET /data/{item_id}" -> "get_item"
    [] op = "DELETE /data/{item_id}" -> "delete_item"
Ops == {"GET /data", "GET /data/{item_id}", "DELETE /data/{item_id}"}
\* the library's two readings of a token that expires this very minute
Lenients(token) ==
  IF token # Malformed /\ token.exp = now THEN BOOLEAN ELSE {TRUE}

\* lines 200-206: decode the token and take its subject
get_current_user_decode(w, op, item_id, token, lenient) ==
  /\ pc[w] = "idle"
  /\ LET payload == jwt_decode(token, SECRET_KEY, now, lenient) IN
     IF payload = PyJWTError \/ payload.sub = NoSub
     THEN /\ Respond(w, [op |-> op, token |-> token, at |-> now,
                         out |-> credentials_exception])
     ELSE /\ pc' = [pc EXCEPT ![w] = "get_user"]
          /\ req' = [req EXCEPT ![w] =
                       [op |-> op, item_id |-> item_id, token |-> token]]
          /\ username' = [username EXCEPT ![w] = payload.sub]
          /\ resp' = [resp EXCEPT ![w] = NoResp]
          /\ UNCHANGED current_user
  /\ UNCHANGED <<file_vars, now, delete_locals, create_locals, hist_vars>>

\* lines 207-210: look the subject up
get_current_user_lookup(w) ==
  /\ pc[w] = "get_user"
  /\ LET user == get_user(username[w]) IN
     IF user = NoneV
     THEN Respond(w, [op |-> req[w].op, token |-> req[w].token, at |-> now,
                      out |-> credentials_exception])
     ELSE /\ pc' = [pc EXCEPT ![w] = HandlerOf(req[w].op)]
          /\ current_user' = [current_user EXCEPT ![w] = user]
          /\ req' = [req EXCEPT ![w] = [op |-> req[w].op, item_id |-> req[w].item_id]]
          /\ UNCHANGED <<username, resp>>
  /\ UNCHANGED <<file_vars, now, delete_locals, create_locals, hist_vars>>

(***************************************************************************)
(* GET /data, GET /data/{item_id}                                          *)
(***************************************************************************)
get_data(w) ==
  /\ pc[w] = "get_data"
  /\ Respond(w, [op |-> req[w].op, out |-> [status |-> 200, body |-> load_data]])
  /\ UNCHANGED <<file_vars, now, delete_locals, create_locals, hist_vars>>

get_item(w) ==
  /\ pc[w] = "get_item"
  /\ LET list == load_data
         i == FirstMatch(list, req[w].item_id)
     IN Respond(w, [op |-> req[w].op, item_id |-> req[w].item_id,
                    out |-> IF i = 0 THEN ItemNotFound
                            ELSE [status |-> 200,
                                  message |-> "Item obtained successfully",
                                  item |-> list[i]]])
  /\ UNCHANGED <<file_vars, now, delete_locals, create_locals, hist_vars>>

(***************************************************************************)
(* DELETE /data/{item_id}                                                  *)
(***************************************************************************)
\* lines 263-265 and 269: load the list and scan it for the id
delete_item(w) ==
  /\ pc[w] = "delete_item"
  /\ LET list == load_data
         i == FirstMatch(list, req[w].item_id)
     IN IF i = 0
        THEN /\ Respond(w, [op |-> req[w].op, item_id |-> req[w].item_id,
                            out |-> ItemNotFound])
             /\ UNCHANGED <<delete_locals, stale>>
        ELSE /\ pc' = [pc EXCEPT ![w] = "save_data"]
             /\ data' = [data EXCEPT ![w] = list]
             /\ index' = [index EXCEPT ![w] = i]
             /\ stale' = [stale EXCEPT ![w] = FALSE]
             /\ UNCHANGED <<auth_locals, resp>>
  /\ UNCHANGED <<file_vars, now, create_locals, last_deleted, double_success,
                 lost_update>>

\* lines 266-268: pop the match, write the rest back, answer with the match
save_data(w) ==
  /\ pc[w] = "save_data"
  /\ LET deleted_item == data[w][index[w]]
         rest == Pop(data[w], index[w])
         before == Ids(json_load_data(data_file))
     IN /\ data_file' = json_dump_data(rest)
        /\ Respond(w, [op |-> req[w].op, item_id |-> req[w].item_id,
                       out |-> [status |-> 200, message |-> "Item deleted",
                                item |-> deleted_item]])
        /\ last_deleted' = deleted_item.id
        /\ double_success' = (double_success \/ deleted_item.id \notin before)
        /\ lost_update' = (lost_update \/ ~(Ids(rest) \subseteq before))
  /\ data' = [data EXCEPT ![w] = <<>>]
  /\ index' = [index EXCEPT ![w] = 0]
  /\ stale' = [v \in Workers |-> v # w /\ pc[v] = "save_data"]
  /\ UNCHANGED <<users_file, now, create_locals>>

(***************************************************************************)
(* Time passes.                                                            *)
(***************************************************************************)
Tick ==
  /\ now + TickStep <= MaxTime
  /\ now' = now + TickStep
  /\ UNCHANGED <<file_vars, pc, auth_locals, delete_locals, create_locals, resp,
                 hist_vars>>

(***************************************************************************)
(* The whole service: any worker takes any request.                        *)
(***************************************************************************)
Next ==
  \/ \E w \in Workers, u \in Usernames, p \in Passwords : login(w, u, p)
  \/ \E w \in Workers, u \in Usernames, p \in Profiles :
       create_new_user(w, u, p.password, p.full_name, p.email)
  \/ \E w \in Workers : create_user_load(w)
  \/ \E w \in Workers : create_user_save(w)
  \/ \E w \in Workers, op \in Ops, id \in ItemIds, t \in Tokens :
       \E l \in Lenients(t) : get_current_user_decode(w, op, id, t, l)
  \/ \E w \in Workers : get_current_user_lookup(w)
  \/ \E w \in Workers : get_data(w)
  \/ \E w \in Workers : get_item(w)
  \/ \E w \in Workers : delete_item(w)
  \/ \E w \in Workers : save_data(w)
  \/ Tick

Spec == Init /\ [][Next]_vars

(***************************************************************************)
(* Accounts and tokens: both workers serve logins and registrations, w2    *)
(* also serves the /data routes over a one-record data.json, with a        *)
(* running clock.  The tokens presented are                                *)
(* the well-signed ones of every user and expiry, one without a subject,   *)
(* wrongly signed ones and a malformed one.                                *)
(***************************************************************************)
AuthTokens ==
  [sub : Usernames, exp : ExpTimes, key : {SECRET_KEY}]
    \cup [sub : {NoSub}, exp : {TOKEN_EXP + MaxTime}, key : {SECRET_KEY}]
    \cup [sub : {"Me"}, exp : {TOKEN_EXP, TOKEN_EXP + MaxTime}, key : {"other key"}]
    \cup {Malformed}
InitAuth ==
  /\ users_file \in InitUsersFiles
  /\ data_file = json_dump_data(<<Item(1)>>)
  /\ InitWorkers

NextAuth ==
  \/ \E w \in Workers, u \in Usernames, p \in Passwords : login(w, u, p)
  \/ \E w \in Workers, u \in Usernames, p \in Profiles :
       create_new_user(w, u, p.password, p.full_name, p.email)
  \/ \E w \in Workers : create_user_load(w)
  \/ \E w \in Workers : create_user_save(w)
  \/ \E op \in Ops, t \in AuthTokens : \E l \in Lenients(t) :
       get_current_user_decode("w2", op, 1, t, l)
  \/ \E w \in Workers : get_current_user_lookup(w)
  \/ \E w \in Workers : get_data(w)
  \/ \E w \in Workers : get_item(w)
  \/ \E w \in Workers : delete_item(w)
  \/ \E w \in Workers : save_data(w)
  \/ Tick

SpecAuth == InitAuth /\ [][NextAuth]_vars

(***************************************************************************)
(* Records: both workers serve the three /data routes over every           *)
(* data.json of Init, for one registered user, at a fixed time.            *)
(***************************************************************************)
RecordTokens ==
  { [sub |-> "Me", exp |-> TOKEN_EXP, key |-> SECRET_KEY], Malformed }
InitRecords ==
  /\ users_file = json_dump_users([k \in {"Me"} |-> StoredUser("Me", MeProfile, FALSE)])
  /\ data_file \in {json_dump_data(s) : s \in DistinctSeqs(RecordIds)}
  /\ InitWorkers

NextRecords ==
  \/ \E w \in Workers, op \in Ops, id \in ItemIds, t \in RecordTokens :
       \E l \in Lenients(t) : get_current_user_decode(w, op, id, t, l)
  \/ \E w \in Workers : get_current_user_lookup(w)
  \/ \E w \in Workers : get_data(w)
  \/ \E w \in Workers : get_item(w)
  \/ \E w \in Workers : delete_item(w)
  \/ \E w \in Workers : save_data(w)

SpecRecords == InitRecords /\ [][NextRecords]_vars

(***************************************************************************)
(* What the properties below read off a step.                              *)
(***************************************************************************)
\* listAll(): the persisted record collection
Store == json_load_data(data_file)
HandlerPcs == {"get_data", "get_item", "delete_item"}
\* worker w answers a request this step
Answers(w) == pc'[w] = "idle" /\ resp'[w] # resp[w]
\* worker w answers a POST /token this step
LoginStep(w) == pc[w] = "idle" /\ Answers(w) /\ resp'[w].op = "login"
\* the username of that login is registered and its password is the right one
CorrectLogin(w) ==
  /\ resp'[w].username \in DOMAIN load_users
  /\ load_users[resp'[w].username].hashed_password
       = pwd_context_hash(resp'[w].password)
\* worker w turns a /data request down at the decode step
DecodeFail(w) == pc[w] = "idle" /\ Answers(w) /\ resp'[w].op \in Ops
\* worker w lets a /data request through the decode step
DecodePass(w) == pc[w] = "idle" /\ pc'[w] = "get_user"
\* the token fails verification at the given time
TokenFails(token, time) ==
  \/ token = Malformed
  \/ token.key # SECRET_KEY
  \/ token.exp < time
  \/ token.sub = NoSub
IsLoginOk(r) == r.op = "login" /\ r.out.status = 200

(***************************************************************************)
(* C1.  A delete that reports success leaves a store one record shorter    *)
(* than the store it loaded (and than the store it overwrites, when no     *)
(* other write came in between) and without the id; as long as its write   *)
(* is the latest one, GET /data/{id} of that id answers 404 "Item not      *)
(* found".                                                                 *)
(***************************************************************************)
C1_DeleteThenNotFound ==
  [][\A w \in Workers :
       /\ (pc[w] = "delete_item" /\ pc'[w] = "save_data") => data'[w] = Store
       /\ (pc[w] = "save_data" /\ pc'[w] = "idle") =>
            /\ resp'[w].out.status = 200
            /\ resp'[w].out.item.id = req[w].item_id
            /\ Len(Store') = Len(data[w]) - 1
            /\ ~stale[w] => Len(Store') = Len(Store) - 1
            /\ req[w].item_id \notin Ids(Store')
       /\ (pc[w] = "get_item" /\ pc'[w] = "idle"
             /\ req[w].item_id = last_deleted) =>
            resp'[w].out = ItemNotFound
    ]_vars

C1_Witness ==
  \E w, v \in Workers :
    /\ resp[w].op = "DELETE /data/{item_id}" /\ resp[w].out.status = 200
    /\ resp[v].op = "GET /data/{item_id}" /\ resp[v].out = ItemNotFound
    /\ resp[v].item_id = resp[w].item_id
    /\ last_deleted = resp[w].item_id
    /\ Len(Store) >= 1

(***************************************************************************)
(* C2.  A delete of an id that no record of the store holds answers 404    *)
(* "Item not found" and writes nothing, every time it is made.             *)
(***************************************************************************)
C2_DeleteMissingIsNoOp ==
  [][\A w \in Workers :
       (pc[w] = "delete_item" /\ pc'[w] # "delete_item"
          /\ req[w].item_id \notin Ids(Store)) =>
         /\ pc'[w] = "idle"
         /\ resp'[w].out = ItemNotFound
         /\ data_file' = data_file
    ]_vars

C2_Witness ==
  /\ \A w \in Workers :
       /\ resp[w].op = "DELETE /data/{item_id}"
       /\ resp[w].out = ItemNotFound
       /\ resp[w].item_id \notin Ids(Store)
  /\ \A w, v \in Workers : resp[w].item_id = resp[v].item_id
  /\ Len(Store) = MaxId
  /\ last_deleted = 0

(***************************************************************************)
(* C8.  GET /data/{id} answers with the stored record that holds the id,   *)
(* every field as stored, and with 404 "Item not found" when none holds    *)
(* it; it never writes data.json.                                          *)
(***************************************************************************)
C8_GetReturnsStoredRecord ==
  [][\A w \in Workers :
       (pc[w] = "get_item" /\ pc'[w] # "get_item") =>
         /\ pc'[w] = "idle"
         /\ data_file' = data_file
         /\ \A i \in 1..Len(Store) :
              Store[i].id = req[w].item_id =>
                /\ resp'[w].out.status = 200
                /\ resp'[w].out.item = Store[i]
         /\ req[w].item_id \notin Ids(Store) => resp'[w].out = ItemNotFound
    ]_vars

C8_Witness ==
  \E w \in Workers :
    /\ resp[w].op = "GET /data/{item_id}"
    /\ resp[w].out.status = 200
    /\ Len(Store) = MaxId
    /\ resp[w].out.item = Store[MaxId]
    /\ resp[w].out.item.id # MaxId

(***************************************************************************)
(* C10.  Two deletes served by different workers are not atomic: both can  *)
(* report the same record deleted, and a write can bring back a record     *)
(* another request deleted.  Either happens only to a delete that writes   *)
(* after another write reached data.json since its own load.               *)
(***************************************************************************)
C10_AnomaliesOnlyWhenInterleaved ==
  [][\A w \in Workers :
       (pc[w] = "save_data" /\ pc'[w] = "idle") =>
         /\ ~stale[w] =>
              /\ req[w].item_id \in Ids(Store)
              /\ Ids(Store') \subseteq Ids(Store)
              /\ double_success' = double_success
              /\ lost_update' = lost_update
         /\ double_success' = (double_success \/ req[w].item_id \notin Ids(Store))
         /\ lost_update' = (lost_update \/ ~(Ids(Store') \subseteq Ids(Store)))
    ]_vars

C10_Witness ==
  /\ double_success /\ lost_update
  /\ \A w \in Workers :
       resp[w].op = "DELETE /data/{item_id}" /\ resp[w].out.status = 200
  /\ \A w, v \in Workers : resp[w].out.item = resp[v].out.item

(***************************************************************************)
(* C3.  A /data request passes the decode step only with a token that is   *)
(* well formed, signed with the service's key, not expired and has a       *)
(* subject, and reaches its handler only when that subject is a key of     *)
(* users.json; every other request is answered 401 with no data in the     *)
(* answer; data.json changes only by the write of a DELETE that was        *)
(* resolved to a user.                                                     *)
(***************************************************************************)
C3_OnlyResolvedRequestsReachRecords ==
  [][/\ \A w \in Workers :
          /\ DecodePass(w) =>
               /\ ~TokenFails(req'[w].token, now)
               /\ username'[w] = req'[w].token.sub
          /\ DecodeFail(w) =>
               /\ resp'[w].out = credentials_exception
               /\ data_file' = data_file
          /\ (pc[w] = "get_user" /\ pc'[w] # "get_user") =>
               IF username[w] \in DOMAIN load_users
               THEN /\ pc'[w] = HandlerOf(req[w].op)
                    /\ current_user'[w] = load_users[username[w]]
               ELSE /\ pc'[w] = "idle"
                    /\ resp'[w].out = credentials_exception
                    /\ data_file' = data_file
          /\ (pc'[w] \in HandlerPcs /\ pc[w] # pc'[w]) => pc[w] = "get_user"
          /\ (pc'[w] = "save_data" /\ pc[w] # pc'[w]) => pc[w] = "delete_item"
     /\ data_file' # data_file =>
          \E w \in Workers :
            /\ pc[w] = "save_data" /\ pc'[w] = "idle"
            /\ req[w].op = "DELETE /data/{item_id}"
            /\ current_user[w] # NoneV
    ]_vars

C3_Witness ==
  /\ last_deleted # 0
  /\ resp["w2"].op = "DELETE /data/{item_id}"
  /\ resp["w2"].out = credentials_exception
  /\ ~TokenFails(resp["w2"].token, resp["w2"].at)
  /\ resp["w2"].token.sub \notin DOMAIN load_users

(***************************************************************************)
(* C4.  A token whose exp is earlier than the time of the decode never     *)
(* passes the decode step, well signed or not: the request is answered     *)
(* 401 and no handler runs for it.                                         *)
(***************************************************************************)
C4_ExpiredTokenRejected ==
  [][\A w \in Workers :
       /\ DecodePass(w) => ~(req'[w].token.exp < now)
       /\ (DecodeFail(w) /\ resp'[w].token # Malformed) =>
            /\ resp'[w].out.status = 401
            /\ resp'[w].at = now
       /\ (pc'[w] \in HandlerPcs /\ pc[w] # pc'[w]) => pc[w] = "get_user"
    ]_vars

C4_Witness ==
  /\ resp["w2"].op \in Ops
  /\ resp["w2"].out.status = 401
  /\ resp["w2"].token # Malformed
  /\ resp["w2"].token.key = SECRET_KEY
  /\ resp["w2"].token.sub \in DOMAIN load_users
  /\ resp["w2"].token.exp < resp["w2"].at

(***************************************************************************)
(* C5.  A login with a registered username and its password answers 200    *)
(* with a token that jwt.decode accepts at every time before its exp,      *)
(* giving that username as subject; a /data request that presents the      *)
(* token before its exp passes the decode step with that username.         *)
(***************************************************************************)
C5_LoginTokenRoundTrip ==
  [][\A w \in Workers :
       /\ (LoginStep(w) /\ CorrectLogin(w)) =>
            /\ resp'[w].out.status = 200
            /\ \A t \in Times, l \in BOOLEAN :
                 t < resp'[w].out.access_token.exp =>
                   LET payload ==
                         jwt_decode(resp'[w].out.access_token, SECRET_KEY, t, l)
                   IN payload # PyJWTError /\ payload.sub = resp'[w].username
       /\ \A v \in Workers :
            (IsLoginOk(resp[v]) /\ now < resp[v].out.access_token.exp) =>
              /\ (DecodePass(w) /\ req'[w].token = resp[v].out.access_token) =>
                   username'[w] = resp[v].username
              /\ ~(DecodeFail(w) /\ resp'[w].token = resp[v].out.access_token)
    ]_vars

C5_Witness ==
  /\ IsLoginOk(resp["w1"])
  /\ pc["w2"] = "get_user"
  /\ req["w2"].token = resp["w1"].out.access_token
  /\ username["w2"] = resp["w1"].username
  /\ now > 0

(***************************************************************************)
(* C6.  No login of a user whose stored disabled flag is true is answered  *)
(* with a token.                                                           *)
(***************************************************************************)
C6_DisabledUserRejected ==
  [][\A w \in Workers :
       (LoginStep(w) /\ resp'[w].username \in DOMAIN load_users
          /\ load_users[resp'[w].username].disabled) =>
         resp'[w].out = IncorrectLogin
    ]_vars

(***************************************************************************)
(* C7.  A registration under a username users.json already holds answers   *)
(* 400 "Username already exists" and writes nothing, so the record of the  *)
(* first registration and every other entry stay as they are; a            *)
(* registration that goes on to write found the username free.             *)
(***************************************************************************)
C7_SecondRegistrationConflicts ==
  [][/\ \A w \in Workers :
          /\ (pc[w] = "idle" /\ pc'[w] = "load_users") =>
               user_data'[w].username \notin DOMAIN load_users
          /\ (pc[w] = "idle" /\ Answers(w) /\ resp'[w].op = "create_user") =>
               /\ resp'[w].out = UsernameExists
               /\ resp'[w].username \in DOMAIN load_users
          /\ (pc[w] = "save_users" /\ pc'[w] = "idle") =>
               /\ resp'[w].out.status = 200
               /\ load_users'[user_data[w].username] = user_data[w]
     /\ users_file' # users_file =>
          \E w \in Workers : pc[w] = "save_users" /\ pc'[w] = "idle"
    ]_vars

C7_Witness ==
  /\ resp["w1"].op = "create_user" /\ resp["w1"].out.status = 200
  /\ resp["w2"].op = "create_user" /\ resp["w2"].out = UsernameExists
  /\ resp["w1"].username = resp["w2"].username
  /\ resp["w1"].username \in DOMAIN load_users
  /\ "Me" \in DOMAIN load_users /\ "bob" \in DOMAIN load_users

(***************************************************************************)
(* C9.  A login with an unknown username and a login with a known          *)
(* username and a wrong password get the same answer, 400 "Incorrect       *)
(* username or password" with the same headers and no token, and neither   *)
(* writes users.json.                                                      *)
(***************************************************************************)
C9_LoginRejectionsAlike ==
  [][\A w \in Workers :
       (LoginStep(w) /\ ~CorrectLogin(w)) =>
         /\ resp'[w].out = IncorrectLogin
         /\ users_file' = users_file
    ]_vars

C9_Witness ==
  /\ resp["w1"].op = "login" /\ resp["w2"].op = "login"
  /\ resp["w1"].username \notin DOMAIN load_users
  /\ resp["w2"].username \in DOMAIN load_users
  /\ load_users[resp["w2"].username].hashed_password
       # pwd_context_hash(resp["w2"].password)
  /\ resp["w1"].out = resp["w2"].out
  /\ resp["w1"].out = IncorrectLogin

====
